---- MODULE Spec2Model ----
(***************************************************************************)
(* TinyHRM: a model of the Human Resource Machine interpreter in           *)
(* src/common/main.c.  The state is the interpreter's static objects       *)
(* (hands, in_fifo, out_fifo, the room's memory bank) and the locals of    *)
(* execute(); one action per case of the switch in execute()'s loop, one   *)
(* for the loop's exit.  The target is AVR (the file includes <avr/io.h>): *)
(* int is 16 bits wide, so int16_t is int and uint16_t is unsigned int.    *)
(***************************************************************************)
EXTENDS Integers, Sequences, FiniteSets, TLC

(* ---------------- bounds of the model ---------------- *)

\* address parameters of the generated programs range over -1..MaxAddr
MaxAddr == 2

\* bank lengths of the validator harness range over 0..MaxBankLen
MaxBankLen == 2

(* ---------------- program constants ---------------- *)

NUM_INBOX_VALUES == 8

MAX_INSTRUCTIONS_ALLOWED == 1000

\* HRMValueType_t
EMPTY == "EMPTY"

CHAR == "CHAR"

NUM == "NUM"

MEM_ADDR == "MEM_ADDR"

PROG_ADDR == "PROG_ADDR"

\* HRMErr_t
ERR_NONE == 0

ERR_BAD_PARAM_TYPE == 1

ERR_EMPTY_HANDS == 2

ERR_INVALID_TYPE_FOR_DIRECT_ADDR == 3

ERR_DIRECT_ADDR_OUT_OF_RANGE == 4

ERR_INVALID_TYPE_FOR_INDIRECT_ADDR == 5

ERR_INDIRECT_ADDR_OUT_OF_RANGE == 6

ERR_COPYFROM_READING_EMPTY_ADDR == 7

ERR_COPYFROM_IND_READING_EMPTY_ADDR == 8

ERR_BAD_ADDEND_TYPE_IN_HANDS == 9

ERR_BAD_SUBTRAHEND_TYPE_IN_HANDS == 10

ERR_BAD_ADDEND_TYPE_IN_MEMORY == 11

ERR_BAD_SUBTRAHEND_TYPE_IN_MEMORY == 12

ERR_BAD_TYPE_FOR_BUMP_IN_MEMORY == 13

ERR_OVERFLOW == 14

ERR_UNDERFLOW == 15

(* ---------------- integer widths ---------------- *)

\* conversion to uint16_t (unsigned int on the target)
ToU16(x) == x % 65536

\* conversion to int16_t / hrm_num
ToI16(x) == ((x + 32768) % 65536) - 32768

\* conversion to uint8_t
ToU8(x) == x % 256

(* ---------------- values, instructions ---------------- *)

\* HRMVal_t: a type tag and the payload of the union
HRMVal(t, v) == [type |-> t, n |-> v]

Num(v) == HRMVal(NUM, v)

Chr(v) == HRMVal(CHAR, v)

\* a zero-initialised HRMVal_t: type EMPTY (= NO_PARAM), payload 0
ZeroVal == HRMVal(EMPTY, 0)

\* HRMInstruction_t
Inst(op, p) == [inst |-> op, param |-> p]

AddrOps == {"COPYFROM", "COPYFROM_IND", "COPYTO", "COPYTO_IND",
            "ADD", "ADD_IND", "SUB", "SUB_IND",
            "BUMP_PLUS", "BUMP_PLUS_IND", "BUMP_MINUS", "BUMP_MINUS_IND"}

HRMInstructionType == {"INBOX", "OUTBOX", "JUMP", "JUMP_ZERO", "JUMP_NEGATIVE"} \cup AddrOps


\* a C array as a function over its zero-based indices
Arr(s) == [i \in 0..(Len(s) - 1) |-> s[i + 1]]

\* the number of elements of a C array
Length(a) == Cardinality(DOMAIN a)

(* ---------------- the sample room of main.c ---------------- *)

\* in_fifo: the sample input; .val.c = 'D' reads back as n = 68
in_fifo_sample == Arr(<<Num(7), Num(0), Num(5), Num(68), Num(0), Num(0), Num(0), Num(0)>>)

\* mem_zero_preservation_initiative: nine zero-initialised cells
mem_zero_preservation_initiative == [i \in 0..8 |-> ZeroVal]

pgm_zero_preservation_initiative ==
    Arr(<< Inst("INBOX", ZeroVal),
           Inst("JUMP_ZERO", HRMVal(PROG_ADDR, 4)),
           Inst("JUMP", HRMVal(PROG_ADDR, 1)),
           Inst("OUTBOX", ZeroVal),
           Inst("JUMP", HRMVal(PROG_ADDR, 1)) >>)

(* ---------------- state ---------------- *)

VARIABLES
    pgm,                            \* execute's argument: the program
    mem,                            \* execute's argument: the memory bank
    in_fifo,                        \* static input queue
    out_fifo,                       \* static output queue, NUM_INBOX_VALUES cells
    hands,                          \* static accumulator
    pgm_num_instructions_executed,  \* locals of execute
    pgm_pc,
    inbox_empty,
    in_fifo_val_idx,
    out_fifo_num_vals,
    err,
    status,                         \* "running": in execute's loop; "returned"
    ret,                            \* the value execute returned
    iter,                           \* loop iterations of execute begun, modulo 2
    call                            \* validator harness: the last validator call

vars == <<pgm, mem, in_fifo, out_fifo, hands, pgm_num_instructions_executed, pgm_pc,
          inbox_empty, in_fifo_val_idx, out_fifo_num_vals, err, status, ret, iter, call>>

pgm_len == Length(pgm)

mem_len == Length(mem)

NoCall == [fn |-> "none", arg |-> ZeroVal, len |-> 0, ret |-> ERR_NONE, reads |-> <<>>]

(* ---------------- helpers of execute ---------------- *)

verify_hands_not_empty(h) ==
    IF EMPTY = h.type THEN ERR_EMPTY_HANDS ELSE ERR_NONE

verify_hands_hold_number(h) ==
    LET ret_val == verify_hands_not_empty(h)
    IN  IF ERR_NONE = ret_val /\ NUM # h.type
        THEN ERR_BAD_ADDEND_TYPE_IN_HANDS
        ELSE ret_val

\* the comparison read with both operands as signed integers
verify_direct_addr_signed(direct_addr, len) ==
    IF NUM # direct_addr.type THEN ERR_INVALID_TYPE_FOR_DIRECT_ADDR
    ELSE IF direct_addr.n >= len THEN ERR_DIRECT_ADDR_OUT_OF_RANGE
    ELSE ERR_NONE

\* direct_addr.val.n >= ( uint16_t )mem_len compares an int with an unsigned
\* int: the int operand is converted to unsigned int.  The mem argument is
\* not used by the function.
verify_direct_addr(direct_addr, len) ==
    IF NUM # direct_addr.type THEN ERR_INVALID_TYPE_FOR_DIRECT_ADDR
    ELSE IF ToU16(direct_addr.n) >= ToU16(len) THEN ERR_DIRECT_ADDR_OUT_OF_RANGE
    ELSE ERR_NONE

\* the outer checks done by a call of verify_direct_addr on the parameter
verify_indirect_addr_outer_direct(indirect_addr, m, len) ==
    IF verify_direct_addr(indirect_addr, len) # ERR_NONE
    THEN [ret |-> verify_direct_addr(indirect_addr, len), reads |-> <<>>]
    ELSE [ret |-> verify_direct_addr(m[indirect_addr.n], len),
          reads |-> <<indirect_addr.n>>]

\* the outer checks alone: the value of the cell read is not validated
verify_indirect_addr_outer_only(indirect_addr, m, len) ==
    IF NUM # indirect_addr.type
    THEN [ret |-> ERR_INVALID_TYPE_FOR_INDIRECT_ADDR, reads |-> <<>>]
    ELSE IF ToU16(indirect_addr.n) >= ToU16(len)
         THEN [ret |-> ERR_INDIRECT_ADDR_OUT_OF_RANGE, reads |-> <<>>]
         ELSE [ret |-> ERR_NONE, reads |-> <<indirect_addr.n>>]

\* verify_indirect_addr: its result and the memory cells it reads, in order
verify_indirect_addr_trace(indirect_addr, m, len) ==
    IF NUM # indirect_addr.type
    THEN [ret |-> ERR_INVALID_TYPE_FOR_INDIRECT_ADDR, reads |-> <<>>]
    ELSE IF ToU16(indirect_addr.n) >= ToU16(len)
         THEN [ret |-> ERR_INDIRECT_ADDR_OUT_OF_RANGE, reads |-> <<>>]
         ELSE [ret |-> verify_direct_addr(m[indirect_addr.n], len),
               reads |-> <<indirect_addr.n>>]

verify_indirect_addr(indirect_addr, m, len) ==
    verify_indirect_addr_trace(indirect_addr, m, len).ret

(* ---------------- execute: the loop ---------------- *)

\* the while condition; pgm_pc <= ( pgm_len - 1 ) compares an unsigned int
\* with an int, so the right operand is converted to unsigned int
LoopCond ==
    /\ 0 = inbox_empty
    /\ ERR_NONE = err
    /\ pgm_pc <= ToU16(pgm_len - 1)
    /\ pgm_num_instructions_executed <= MAX_INSTRUCTIONS_ALLOWED

Running == status = "running" /\ LoopCond

\* pgm[pgm_pc]
Cur == pgm[pgm_pc]

Fetch(op) == Running /\ pgm_pc \in DOMAIN pgm /\ Cur.inst = op

\* the address a direct instruction uses once verify_direct_addr passed
DirectIdx == Cur.param.n

\* the address an indirect instruction uses once verify_indirect_addr passed
IndirectIdx == mem[Cur.param.n].n

\* the end of an iteration: control goes back to the while test; the
\* arguments of execute and the input queue are only read
LoopBack ==
    /\ iter' = 1 - iter
    /\ UNCHANGED <<pgm, in_fifo, status, ret, call>>

ExecINBOX_err ==
    /\ Fetch("INBOX")
    /\ IF in_fifo_val_idx >= NUM_INBOX_VALUES
       THEN /\ err' = ERR_EMPTY_HANDS
            /\ UNCHANGED <<hands, in_fifo_val_idx, pgm_pc, inbox_empty>>
       ELSE /\ hands' = in_fifo[in_fifo_val_idx]
            /\ in_fifo_val_idx' = ToU8(in_fifo_val_idx + 1)
            /\ pgm_pc' = ToU16(pgm_pc + 1)
            /\ UNCHANGED <<inbox_empty, err>>
    /\ pgm_num_instructions_executed' = pgm_num_instructions_executed + 1
    /\ UNCHANGED <<mem, out_fifo, out_fifo_num_vals>>
    /\ LoopBack

ExecINBOX ==
    /\ Fetch("INBOX")
    /\ IF in_fifo_val_idx >= NUM_INBOX_VALUES
       THEN /\ inbox_empty' = 1
            /\ UNCHANGED <<hands, in_fifo_val_idx, pgm_pc>>
       ELSE /\ hands' = in_fifo[in_fifo_val_idx]
            /\ in_fifo_val_idx' = ToU8(in_fifo_val_idx + 1)
            /\ pgm_pc' = ToU16(pgm_pc + 1)
            /\ UNCHANGED inbox_empty
    /\ pgm_num_instructions_executed' = pgm_num_instructions_executed + 1
    /\ UNCHANGED <<mem, out_fifo, out_fifo_num_vals, err>>
    /\ LoopBack

\* out_fifo has NUM_INBOX_VALUES cells.  A store at an index past the array
\* is undefined: it leaves out_fifo as it is and either touches nothing the
\* model holds or overwrites a cell of the bank, a neighbouring static object.
ExecOUTBOX ==
    /\ Fetch("OUTBOX")
    /\ IF EMPTY = hands.type
       THEN /\ err' = ERR_EMPTY_HANDS
            /\ UNCHANGED <<out_fifo, out_fifo_num_vals, pgm_pc, mem>>
       ELSE /\ IF out_fifo_num_vals \in DOMAIN out_fifo
               THEN /\ out_fifo' = [out_fifo EXCEPT ![out_fifo_num_vals] = hands]
                    /\ UNCHANGED mem
               ELSE /\ UNCHANGED out_fifo
                    /\ \/ UNCHANGED mem
                       \/ \E i \in DOMAIN mem : mem' = [mem EXCEPT ![i] = hands]
            /\ out_fifo_num_vals' = ToU8(out_fifo_num_vals + 1)
            /\ pgm_pc' = ToU16(pgm_pc + 1)
            /\ UNCHANGED err
    /\ pgm_num_instructions_executed' = pgm_num_instructions_executed + 1
    /\ UNCHANGED <<hands, in_fifo_val_idx, inbox_empty>>
    /\ LoopBack

\* the body shared by COPYFROM and COPYFROM_IND: verr is the validator's
\* result, idx the cell read, empty_err the error for an empty cell
CopyFrom(verr, idx, empty_err) ==
    /\ IF ERR_NONE = verr
       THEN IF EMPTY = mem[idx].type
            THEN err' = empty_err /\ UNCHANGED hands
            ELSE hands' = mem[idx] /\ err' = verr
       ELSE err' = verr /\ UNCHANGED hands
    /\ UNCHANGED <<mem, out_fifo, out_fifo_num_vals, in_fifo_val_idx, inbox_empty,
                   pgm_pc, pgm_num_instructions_executed>>
    /\ LoopBack

ExecCOPYFROM ==
    /\ Fetch("COPYFROM")
    /\ CopyFrom(verify_direct_addr(Cur.param, mem_len), DirectIdx,
                ERR_COPYFROM_READING_EMPTY_ADDR)

ExecCOPYFROM_IND ==
    /\ Fetch("COPYFROM_IND")
    /\ CopyFrom(verify_indirect_addr(Cur.param, mem, mem_len), IndirectIdx,
                ERR_COPYFROM_IND_READING_EMPTY_ADDR)

\* the body shared by COPYTO and COPYTO_IND
CopyTo(verr, idx) ==
    /\ err' = verr
    /\ IF ERR_NONE = verr
       THEN /\ mem' = [mem EXCEPT ![idx] = hands]
            /\ hands' = [hands EXCEPT !.type = EMPTY]
       ELSE UNCHANGED <<mem, hands>>
    /\ UNCHANGED <<out_fifo, out_fifo_num_vals, in_fifo_val_idx, inbox_empty,
                   pgm_pc, pgm_num_instructions_executed>>
    /\ LoopBack

ExecCOPYTO ==
    /\ Fetch("COPYTO")
    /\ CopyTo(verify_direct_addr(Cur.param, mem_len), DirectIdx)

ExecCOPYTO_IND ==
    /\ Fetch("COPYTO_IND")
    /\ CopyTo(verify_indirect_addr(Cur.param, mem, mem_len), IndirectIdx)

\* the range test of the ADD and SUB cases, as written
ArithRangeErr(n) ==
    IF n < 999 THEN ERR_UNDERFLOW
    ELSE IF n > 999 THEN ERR_OVERFLOW
    ELSE ERR_NONE

\* the same body with the address validated before the hands
Arith_address_first(hands_err, mem_err, verr, idx, sign) ==
    /\ IF ERR_NONE # verr
       THEN err' = verr /\ UNCHANGED hands
       ELSE IF ERR_NONE # verify_hands_hold_number(hands)
       THEN err' = hands_err /\ UNCHANGED hands
       ELSE IF mem[idx].type # NUM
       THEN err' = mem_err /\ UNCHANGED hands
       ELSE LET r == ToI16(hands.n + sign * mem[idx].n)
            IN  /\ hands' = [hands EXCEPT !.n = r]
                /\ err' = ArithRangeErr(r)
    /\ UNCHANGED <<mem, out_fifo, out_fifo_num_vals, in_fifo_val_idx, inbox_empty,
                   pgm_pc, pgm_num_instructions_executed>>
    /\ LoopBack

\* the body shared by ADD, ADD_IND (sign = 1) and SUB, SUB_IND (sign = -1).
\* hands.val.n is updated before the range test and keeps the result when
\* the test fails.  No reachable operands leave the range of int16_t.
Arith(hands_err, mem_err, verr, idx, sign) ==
    /\ IF ERR_NONE # verify_hands_hold_number(hands)
       THEN err' = hands_err /\ UNCHANGED hands
       ELSE IF ERR_NONE # verr
       THEN err' = verr /\ UNCHANGED hands
       ELSE IF mem[idx].type # NUM
       THEN err' = mem_err /\ UNCHANGED hands
       ELSE LET r == ToI16(hands.n + sign * mem[idx].n)
            IN  /\ hands' = [hands EXCEPT !.n = r]
                /\ err' = ArithRangeErr(r)
    /\ UNCHANGED <<mem, out_fifo, out_fifo_num_vals, in_fifo_val_idx, inbox_empty,
                   pgm_pc, pgm_num_instructions_executed>>
    /\ LoopBack

ExecADD ==
    /\ Fetch("ADD")
    /\ Arith(ERR_BAD_ADDEND_TYPE_IN_HANDS, ERR_BAD_ADDEND_TYPE_IN_MEMORY,
             verify_direct_addr(Cur.param, mem_len), DirectIdx, 1)

ExecADD_IND ==
    /\ Fetch("ADD_IND")
    /\ Arith(ERR_BAD_ADDEND_TYPE_IN_HANDS, ERR_BAD_ADDEND_TYPE_IN_MEMORY,
             verify_indirect_addr(Cur.param, mem, mem_len), IndirectIdx, 1)

ExecSUB ==
    /\ Fetch("SUB")
    /\ Arith(ERR_BAD_SUBTRAHEND_TYPE_IN_HANDS, ERR_BAD_SUBTRAHEND_TYPE_IN_MEMORY,
             verify_direct_addr(Cur.param, mem_len), DirectIdx, -1)

ExecSUB_IND ==
    /\ Fetch("SUB_IND")
    /\ Arith(ERR_BAD_SUBTRAHEND_TYPE_IN_HANDS, ERR_BAD_SUBTRAHEND_TYPE_IN_MEMORY,
             verify_indirect_addr(Cur.param, mem, mem_len), IndirectIdx, -1)

\* the range tests of the bump cases, as written
BumpPlusRangeErr(n) == IF n > 999 THEN ERR_OVERFLOW ELSE ERR_NONE

BumpMinusRangeErr(n) == IF n < 999 THEN ERR_UNDERFLOW ELSE ERR_NONE

\* the body shared by the four bump cases: d is +1 (BUMP_PLUS forms, tested
\* for overflow) or -1 (BUMP_MINUS forms, tested for underflow)
Bump(verr, idx, d) ==
    /\ IF ERR_NONE # verr
       THEN err' = verr /\ UNCHANGED <<mem, hands>>
       ELSE IF mem[idx].type # NUM
       THEN err' = ERR_BAD_TYPE_FOR_BUMP_IN_MEMORY /\ UNCHANGED <<mem, hands>>
       ELSE LET value == [mem[idx] EXCEPT !.n = ToI16(@ + d)]
                range_err == IF d = 1 THEN BumpPlusRangeErr(value.n)
                             ELSE BumpMinusRangeErr(value.n)
            IN  IF ERR_NONE # range_err
                THEN err' = range_err /\ UNCHANGED <<mem, hands>>
                ELSE /\ mem' = [mem EXCEPT ![idx] = value]
                     /\ hands' = value
                     /\ err' = verr
    /\ UNCHANGED <<out_fifo, out_fifo_num_vals, in_fifo_val_idx, inbox_empty,
                   pgm_pc, pgm_num_instructions_executed>>
    /\ LoopBack

ExecBUMP_PLUS ==
    /\ Fetch("BUMP_PLUS")
    /\ Bump(verify_direct_addr(Cur.param, mem_len), DirectIdx, 1)

ExecBUMP_PLUS_IND ==
    /\ Fetch("BUMP_PLUS_IND")
    /\ Bump(verify_indirect_addr(Cur.param, mem, mem_len), IndirectIdx, 1)

ExecBUMP_MINUS ==
    /\ Fetch("BUMP_MINUS")
    /\ Bump(verify_direct_addr(Cur.param, mem_len), DirectIdx, -1)

ExecBUMP_MINUS_IND ==
    /\ Fetch("BUMP_MINUS_IND")
    /\ Bump(verify_indirect_addr(Cur.param, mem, mem_len), IndirectIdx, -1)

UnchangedByJump ==
    /\ UNCHANGED <<mem, hands, out_fifo, out_fifo_num_vals, in_fifo_val_idx, inbox_empty>>
    /\ LoopBack

\* the target taken as a zero-based index
JumpTarget_one_based == ToU16(Cur.param.n)

\* pgm[pgm_pc].param.val.n - 1, stored in the uint16_t pgm_pc
JumpTarget == ToU16(Cur.param.n - 1)

ExecJUMP ==
    /\ Fetch("JUMP")
    /\ pgm_pc' = JumpTarget
    /\ pgm_num_instructions_executed' = pgm_num_instructions_executed + 1
    /\ UNCHANGED err
    /\ UnchangedByJump

\* the conditional jumps without the test of the hands' type
CondJump_unchecked(taken) ==
    /\ pgm_pc' = IF taken THEN JumpTarget ELSE ToU16(pgm_pc + 1)
    /\ UNCHANGED err
    /\ pgm_num_instructions_executed' = pgm_num_instructions_executed + 1
    /\ UnchangedByJump

\* the body shared by JUMP_ZERO and JUMP_NEGATIVE: taken is the jump's test
CondJump(taken) ==
    /\ IF NUM # hands.type
       THEN err' = ERR_BAD_PARAM_TYPE /\ UNCHANGED pgm_pc
       ELSE /\ pgm_pc' = IF taken THEN JumpTarget ELSE ToU16(pgm_pc + 1)
            /\ UNCHANGED err
    /\ pgm_num_instructions_executed' = pgm_num_instructions_executed + 1
    /\ UnchangedByJump

ExecJUMP_ZERO ==
    /\ Fetch("JUMP_ZERO")
    /\ CondJump(0 = hands.n)

ExecJUMP_NEGATIVE ==
    /\ Fetch("JUMP_NEGATIVE")
    /\ CondJump(hands.n < 0)

\* the default case: an opcode outside HRMInstructionType_t
ExecDefault ==
    /\ Running /\ pgm_pc \in DOMAIN pgm /\ Cur.inst \notin HRMInstructionType
    /\ err' = ERR_BAD_PARAM_TYPE
    /\ UNCHANGED <<mem, hands, out_fifo, out_fifo_num_vals, in_fifo_val_idx, inbox_empty,
                   pgm_pc, pgm_num_instructions_executed>>
    /\ LoopBack

\* the loop's exit and return err
Return ==
    /\ status = "running" /\ ~LoopCond
    /\ status' = "returned"
    /\ ret' = err
    /\ UNCHANGED <<pgm, mem, in_fifo, out_fifo, hands, pgm_num_instructions_executed,
                   pgm_pc, inbox_empty, in_fifo_val_idx, out_fifo_num_vals, err, iter,
                   call>>

Step ==
    \/ ExecINBOX
    \/ ExecOUTBOX
    \/ ExecCOPYFROM
    \/ ExecCOPYFROM_IND
    \/ ExecCOPYTO
    \/ ExecCOPYTO_IND
    \/ ExecADD
    \/ ExecADD_IND
    \/ ExecSUB
    \/ ExecSUB_IND
    \/ ExecBUMP_PLUS
    \/ ExecBUMP_PLUS_IND
    \/ ExecBUMP_MINUS
    \/ ExecBUMP_MINUS_IND
    \/ ExecJUMP
    \/ ExecJUMP_ZERO
    \/ ExecJUMP_NEGATIVE
    \/ ExecDefault

Next == Step \/ Return

(* ---------------- the runs checked ---------------- *)

\* parameters of the addressed instructions: numbers from -1 to MaxAddr and
\* a MEM_ADDR-typed parameter
AddrParams == {Num(a) : a \in (-1)..MaxAddr} \cup {HRMVal(MEM_ADDR, 0)}

\* an addressed instruction run with empty hands, and after an INBOX
AddrPrograms ==
    {Arr(<<Inst(op, p)>>) : op \in AddrOps, p \in AddrParams}
    \cup {Arr(<<Inst("INBOX", ZeroVal), Inst(op, p)>>) : op \in AddrOps, p \in AddrParams}

FlowPrograms ==
    { Arr(<<Inst("JUMP", HRMVal(PROG_ADDR, 1))>>),
      Arr(<<Inst("JUMP", HRMVal(PROG_ADDR, 0))>>),
      Arr(<<Inst("JUMP", HRMVal(PROG_ADDR, 3))>>),
      Arr(<<Inst("INBOX", ZeroVal)>>),
      Arr(<<Inst("INBOX", ZeroVal), Inst("JUMP", HRMVal(PROG_ADDR, 1))>>),
      Arr(<<Inst("OUTBOX", ZeroVal)>>),
      Arr(<<Inst("JUMP_ZERO", HRMVal(PROG_ADDR, 1))>>),
      Arr(<<Inst("INBOX", ZeroVal), Inst("OUTBOX", ZeroVal),
            Inst("JUMP", HRMVal(PROG_ADDR, 2))>>),
      Arr(<<Inst("INBOX", ZeroVal), Inst("JUMP_NEGATIVE", HRMVal(PROG_ADDR, 1)),
            Inst("OUTBOX", ZeroVal), Inst("JUMP_ZERO", HRMVal(PROG_ADDR, 1)),
            Inst("JUMP", HRMVal(PROG_ADDR, 3))>>),
      Arr(<<Inst("NOP", ZeroVal)>>) }

\* banks for the addressed instructions
Banks ==
    { Arr(<<>>),
      Arr(<<Num(1), Num(0)>>),
      Arr(<<Num(0), Num(999)>>),
      Arr(<<ZeroVal, Chr(65)>>),
      Arr(<<Num(-999), Num(-1)>>),
      Arr(<<Num(2), Num(998)>>),
      Arr(<<Num(1), Chr(65)>>) }

\* an input queue whose first value is v
InFifo(v) == [in_fifo_sample EXCEPT ![0] = v]

InFifos == {in_fifo_sample, InFifo(Num(999)), InFifo(Num(-999)), InFifo(Num(998)),
            InFifo(Chr(65))}

\* input queues for the sample program: also all zeros, and zeros mixed
\* with negative and positive numbers
EchoFifos ==
    InFifos \cup
    { [i \in 0..(NUM_INBOX_VALUES - 1) |-> Num(0)],
      Arr(<<Num(7), Num(0), Num(5), Num(-1), Num(0), Num(3), Num(0), Num(999)>>) }

\* banks for the programs that address no memory
FlowBanks == {Arr(<<>>), Arr(<<Num(1), Num(0)>>)}

\* the arguments of execute and the input queue: <<pgm, mem, in_fifo>>
Scenarios ==
    (AddrPrograms \X Banks \X InFifos)
    \cup (FlowPrograms \X FlowBanks \X InFifos)
    \cup ({pgm_zero_preservation_initiative} \X {mem_zero_preservation_initiative} \X EchoFifos)

\* the state at the first test of the loop condition in execute, called
\* from main after static initialisation
Init ==
    /\ \E sc \in Scenarios : pgm = sc[1] /\ mem = sc[2] /\ in_fifo = sc[3]
    /\ out_fifo = [i \in 0..(NUM_INBOX_VALUES - 1) |-> ZeroVal]
    /\ hands = ZeroVal
    /\ pgm_num_instructions_executed = 0
    /\ pgm_pc = 0
    /\ inbox_empty = 0
    /\ in_fifo_val_idx = 0
    /\ out_fifo_num_vals = 0
    /\ err = ERR_NONE
    /\ status = "running"
    /\ ret = ERR_NONE
    /\ iter = 0
    /\ call = NoCall

Spec == Init /\ [][Next]_vars

\* the loop of execute never pauses: while an iteration or the return is
\* possible, one is eventually taken
FairSpec == Spec /\ WF_vars(Next)

(* ---------------- execute called again ---------------- *)

\* the arguments and the input queue of a later call of execute
RerunScenarios ==
    ({ Arr(<<Inst("OUTBOX", ZeroVal)>>),
       Arr(<<Inst("INBOX", ZeroVal)>>),
       Arr(<<Inst("JUMP_ZERO", HRMVal(PROG_ADDR, 1))>>) }
        \X {Arr(<<>>)} \X {in_fifo_sample})
    \cup ({pgm_zero_preservation_initiative} \X {mem_zero_preservation_initiative}
            \X {in_fifo_sample})

\* a call of execute after an earlier call returned: the locals are
\* initialised by their declarations; hands and out_fifo are file-scope
\* statics, which execute does not assign before its loop
Call ==
    /\ status = "returned"
    /\ \E sc \in RerunScenarios : pgm' = sc[1] /\ mem' = sc[2] /\ in_fifo' = sc[3]
    /\ pgm_num_instructions_executed' = 0
    /\ pgm_pc' = 0
    /\ inbox_empty' = 0
    /\ in_fifo_val_idx' = 0
    /\ out_fifo_num_vals' = 0
    /\ err' = ERR_NONE
    /\ status' = "running"
    /\ ret' = ERR_NONE
    /\ iter' = 0
    /\ UNCHANGED <<hands, out_fifo, call>>

RerunNext == Step \/ Return \/ Call

RerunSpec == Init /\ [][RerunNext]_vars

(* ---------------- the address validators on their own ---------------- *)

\* cells of the banks the validators are called with
ValidatorCells == {ZeroVal, Chr(65), Num(-1), Num(0), Num(1), Num(MaxBankLen)}

\* every bank of at most MaxBankLen cells
ValidatorBanks ==
    UNION {[0..(len - 1) -> ValidatorCells] : len \in 0..MaxBankLen}

\* address parameters: the ends of hrm_num, the values around the bank's
\* bounds and around the range of mem_len, and every other value type
ValidatorArgs ==
    {Num(v) : v \in {-32768, -999, -1, 255, 256, 999, 32767} \cup 0..(MaxBankLen + 1)}
    \cup {ZeroVal, Chr(0), HRMVal(MEM_ADDR, 0), HRMVal(PROG_ADDR, 1)}

ValidatorInit ==
    /\ mem \in ValidatorBanks
    /\ call = NoCall
    /\ status = "validator"
    /\ pgm = pgm_zero_preservation_initiative
    /\ in_fifo = in_fifo_sample
    /\ out_fifo = [i \in 0..(NUM_INBOX_VALUES - 1) |-> ZeroVal]
    /\ hands = ZeroVal
    /\ pgm_num_instructions_executed = 0
    /\ pgm_pc = 0
    /\ inbox_empty = 0
    /\ in_fifo_val_idx = 0
    /\ out_fifo_num_vals = 0
    /\ err = ERR_NONE
    /\ ret = ERR_NONE
    /\ iter = 0

UnchangedByValidator ==
    UNCHANGED <<pgm, mem, in_fifo, out_fifo, hands, pgm_num_instructions_executed,
                pgm_pc, inbox_empty, in_fifo_val_idx, out_fifo_num_vals, err, status, ret,
                iter>>

\* verify_direct_addr does not use its mem argument: it is called with the
\* length of the bank and with the largest uint8_t length
CallVerifyDirect ==
    /\ status = "validator" /\ call.fn = "none"
    /\ \E arg \in ValidatorArgs, len \in {mem_len, 255} :
          call' = [fn |-> "direct", arg |-> arg, len |-> len,
                   ret |-> verify_direct_addr(arg, len), reads |-> <<>>]
    /\ UnchangedByValidator

CallVerifyIndirect ==
    /\ status = "validator" /\ call.fn = "none"
    /\ \E arg \in ValidatorArgs :
          LET r == verify_indirect_addr_trace(arg, mem, mem_len)
          IN  call' = [fn |-> "indirect", arg |-> arg, len |-> mem_len,
                       ret |-> r.ret, reads |-> r.reads]
    /\ UnchangedByValidator

ValidatorNext == CallVerifyDirect \/ CallVerifyIndirect

ValidatorSpec == ValidatorInit /\ [][ValidatorNext]_vars

(* ---------------- properties ---------------- *)

\* the instruction at pgm_pc is about to be executed
Executing == Running /\ pgm_pc \in DOMAIN pgm

DirectOps == {"COPYFROM", "COPYTO", "ADD", "SUB", "BUMP_PLUS", "BUMP_MINUS"}

\* the validator's verdict on the parameter of the instruction at pgm_pc
CurAddrErr ==
    IF Cur.inst \in DirectOps
    THEN verify_direct_addr(Cur.param, mem_len)
    ELSE verify_indirect_addr(Cur.param, mem, mem_len)

\* the cell the instruction at pgm_pc addresses, when CurAddrErr = ERR_NONE
CurIdx == IF Cur.inst \in DirectOps THEN DirectIdx ELSE IndirectIdx

\* the run stopped on the instruction budget alone
BudgetStop ==
    /\ status = "returned"
    /\ pgm_num_instructions_executed > MAX_INSTRUCTIONS_ALLOWED
    /\ 0 = inbox_empty /\ ERR_NONE = err /\ pgm_pc <= ToU16(pgm_len - 1)

\* C1: every run terminates: it eventually leaves the loop of execute and
\* returns, whatever the program, the bank and the input.
C1_Terminates == <>(status = "returned")

\* C2: at most 1000 instructions are executed in a run: the
\* instructions-executed counter never exceeds MAX_INSTRUCTIONS_ALLOWED.
C2_AtMostMaxInstructions ==
    pgm_num_instructions_executed <= MAX_INSTRUCTIONS_ALLOWED

\* C3: every iteration of the loop, whatever the opcode and whether it
\* succeeds or fails, increases the instructions-executed counter by one.
C3_EveryInstructionCounts ==
    [][(Executing /\ status' = "running")
          => pgm_num_instructions_executed' = pgm_num_instructions_executed + 1]_vars

\* C4: ADD and SUB (direct and indirect) with Number h in hands and Number c
\* in the validly addressed cell, r = h + c or h - c: overflow error if
\* r > 999, underflow error if r < -999, otherwise no error, hands hold r
\* and the program counter advances by one.
C4_ArithRange ==
    [][(/\ Executing
        /\ Cur.inst \in {"ADD", "ADD_IND", "SUB", "SUB_IND"}
        /\ hands.type = NUM
        /\ CurAddrErr = ERR_NONE
        /\ mem[CurIdx].type = NUM)
          => LET r == IF Cur.inst \in {"ADD", "ADD_IND"}
                      THEN hands.n + mem[CurIdx].n
                      ELSE hands.n - mem[CurIdx].n
             IN  IF r > 999 THEN err' = ERR_OVERFLOW
                 ELSE IF r < -999 THEN err' = ERR_UNDERFLOW
                 ELSE /\ err' = ERR_NONE
                      /\ hands' = Num(r)
                      /\ pgm_pc' = pgm_pc + 1]_vars

\* C5: verify_direct_addr on a Number parameter v and bank length L succeeds
\* if and only if 0 <= v < L, and otherwise fails with the
\* direct-address-out-of-range error; negative v included.
C5_DirectValidation ==
    (call.fn = "direct" /\ call.arg.type = NUM)
        => /\ (call.ret = ERR_NONE) <=> (0 <= call.arg.n /\ call.arg.n < call.len)
           /\ call.ret \in {ERR_NONE, ERR_DIRECT_ADDR_OUT_OF_RANGE}

\* a negative address was validated against a non-empty bank and rejected
C5_Witness ==
    /\ call.fn = "direct" /\ call.arg.type = NUM
    /\ call.arg.n < 0 /\ call.len > 0
    /\ call.ret = ERR_DIRECT_ADDR_OUT_OF_RANGE

\* C6: verify_indirect_addr is two-stage and ordered: an outer parameter
\* that is no Number fails with the invalid-indirect-type error, one outside
\* [0, length) with the indirect-out-of-range error, both without reading a
\* cell; otherwise exactly the cell at the outer address is read and the
\* result is the direct validation of that cell's value.
C6_IndirectValidation ==
    call.fn = "indirect"
        => IF call.arg.type # NUM
           THEN call.ret = ERR_INVALID_TYPE_FOR_INDIRECT_ADDR /\ call.reads = <<>>
           ELSE IF ~(0 <= call.arg.n /\ call.arg.n < call.len)
           THEN call.ret = ERR_INDIRECT_ADDR_OUT_OF_RANGE /\ call.reads = <<>>
           ELSE /\ call.reads = <<call.arg.n>>
                /\ LET cell == mem[call.arg.n]
                   IN  call.ret =
                         IF cell.type # NUM THEN ERR_INVALID_TYPE_FOR_DIRECT_ADDR
                         ELSE IF ~(0 <= cell.n /\ cell.n < call.len)
                         THEN ERR_DIRECT_ADDR_OUT_OF_RANGE
                         ELSE ERR_NONE

\* the outer address was valid, its cell was read and held a number outside
\* the bank
C6_Witness ==
    /\ call.fn = "indirect"
    /\ call.reads = <<call.arg.n>>
    /\ call.ret = ERR_DIRECT_ADDR_OUT_OF_RANGE

\* C7: COPYTO and COPYTO_IND executed with Empty hands halt with the
\* empty-hands error, whatever the parameter, and leave memory unchanged.
C7_CopyToEmptyHands ==
    [][(/\ Executing
        /\ Cur.inst \in {"COPYTO", "COPYTO_IND"}
        /\ hands.type = EMPTY)
          => err' = ERR_EMPTY_HANDS /\ mem' = mem]_vars

\* C8: OUTBOX with Empty hands halts with the empty-hands error, appends
\* nothing and does not advance the program counter; OUTBOX with non-empty
\* hands appends the hands value to the end of the output, leaves hands
\* unchanged and advances the program counter by one.
C8_Outbox ==
    [][(Executing /\ Cur.inst = "OUTBOX")
          => IF hands.type = EMPTY
             THEN /\ err' = ERR_EMPTY_HANDS
                  /\ UNCHANGED <<out_fifo, out_fifo_num_vals, pgm_pc>>
             ELSE /\ out_fifo_num_vals \in DOMAIN out_fifo
                  /\ out_fifo' = [out_fifo EXCEPT ![out_fifo_num_vals] = hands]
                  /\ out_fifo_num_vals' = out_fifo_num_vals + 1
                  /\ hands' = hands
                  /\ err' = ERR_NONE
                  /\ pgm_pc' = pgm_pc + 1]_vars

\* C9: INBOX with every input value consumed halts the run normally: no
\* error is set or returned and output, hands, memory and program counter
\* stay as they were; INBOX with a value left puts the next unread value in
\* hands and advances the input cursor and the program counter by one.
C9_Inbox ==
    [][/\ (Executing /\ Cur.inst = "INBOX")
            => IF in_fifo_val_idx = NUM_INBOX_VALUES
               THEN /\ inbox_empty' = 1
                    /\ err' = ERR_NONE
                    /\ UNCHANGED <<out_fifo, out_fifo_num_vals, hands, mem, pgm_pc>>
               ELSE /\ in_fifo_val_idx < NUM_INBOX_VALUES
                    /\ hands' = in_fifo[in_fifo_val_idx]
                    /\ in_fifo_val_idx' = in_fifo_val_idx + 1
                    /\ pgm_pc' = pgm_pc + 1
                    /\ inbox_empty' = 0
                    /\ err' = ERR_NONE
       /\ (status = "running" /\ inbox_empty = 1)
            => /\ status' = "returned"
               /\ ret' = ERR_NONE
               /\ UNCHANGED <<out_fifo, out_fifo_num_vals, hands, mem, pgm_pc>>]_vars

\* a run has returned from an INBOX on the exhausted input with the output
\* it produced before
C9_Witness ==
    /\ status = "returned"
    /\ inbox_empty = 1
    /\ in_fifo_val_idx = NUM_INBOX_VALUES
    /\ ret = ERR_NONE
    /\ out_fifo_num_vals > 0
    /\ out_fifo[0] = Num(0)

\* C10: the value returned by a run stopped by the instruction budget
\* differs from the value returned by a normal halt, which is ERR_NONE.
C10_BudgetOutcomeDistinct == BudgetStop => ret # ERR_NONE

\* the run stopped because pgm_pc left the program, and for no other reason
PcOutStop ==
    /\ status = "returned"
    /\ pgm_pc \notin DOMAIN pgm
    /\ 0 = inbox_empty /\ ERR_NONE = err
    /\ pgm_num_instructions_executed <= MAX_INSTRUCTIONS_ALLOWED

\* C11: when the program counter leaves the program (past the last
\* instruction, or by a jump to target 0 or beyond the length) the run does
\* not return the no-error outcome, and no instruction is fetched outside
\* the program.
C11_PcOutOfBoundsIsFatal ==
    /\ PcOutStop => ret # ERR_NONE
    /\ Running => pgm_pc \in DOMAIN pgm

\* C12: an addressed instruction whose parameter is MEM_ADDR-typed with an
\* index inside the bank is not rejected with the invalid-address-type error
\* of its outer check.
C12_MemAddrParamAccepted ==
    [][(/\ Executing
        /\ Cur.inst \in AddrOps
        /\ Cur.param.type = MEM_ADDR
        /\ 0 <= Cur.param.n /\ Cur.param.n < mem_len)
          => err' # (IF Cur.inst \in DirectOps
                     THEN ERR_INVALID_TYPE_FOR_DIRECT_ADDR
                     ELSE ERR_INVALID_TYPE_FOR_INDIRECT_ADDR)]_vars

\* the output queue: the values written to out_fifo so far, in order
Output == [i \in 1..out_fifo_num_vals |-> out_fifo[i - 1]]

\* the first k values of the input queue, in order
InputPrefix(k) == [i \in 1..k |-> in_fifo[i - 1]]

IsZero(v) == v.type = NUM /\ v.n = 0

\* the zero values among the first k values of the input, in order
Zeros(k) == SelectSeq(InputPrefix(k), IsZero)

\* the sample program run on the all-empty nine-cell bank with an input
\* queue of Numbers
EchoRun ==
    /\ pgm = pgm_zero_preservation_initiative
    /\ \A i \in DOMAIN in_fifo : in_fifo[i].type = NUM
    /\ status \in {"running", "returned"}

\* where the echo run is, what it holds and what it has written
EchoInv ==
    EchoRun =>
      /\ err = ERR_NONE
      /\ pgm_num_instructions_executed <= MAX_INSTRUCTIONS_ALLOWED
      /\ mem = mem_zero_preservation_initiative
      /\ pgm_pc \in 0..4
      /\ pgm_pc = 0 => Output = Zeros(in_fifo_val_idx)
      /\ pgm_pc # 0 => in_fifo_val_idx > 0 /\ hands = in_fifo[in_fifo_val_idx - 1]
      /\ pgm_pc = 1 => Output = Zeros(in_fifo_val_idx - 1)
      /\ pgm_pc = 2 => ~IsZero(hands) /\ Output = Zeros(in_fifo_val_idx - 1)
      /\ pgm_pc = 3 => IsZero(hands) /\ Output = Zeros(in_fifo_val_idx - 1)
      /\ pgm_pc = 4 => IsZero(hands) /\ Output = Zeros(in_fifo_val_idx)
      /\ status = "returned" =>
            /\ ret = ERR_NONE
            /\ inbox_empty = 1
            /\ pgm_pc = 0
            /\ Output = Zeros(NUM_INBOX_VALUES)

\* the echo run's control flow, instruction by instruction
EchoStep ==
    (EchoRun /\ Executing) =>
      /\ pgm_pc = 1 => /\ pgm_pc' = (IF IsZero(hands) THEN 3 ELSE 2)
                       /\ Output' = Output
      /\ pgm_pc = 2 => pgm_pc' = 0 /\ Output' = Output
      /\ pgm_pc = 3 => pgm_pc' = 4 /\ Output' = Append(Output, hands)
      /\ pgm_pc = 4 => pgm_pc' = 0 /\ Output' = Output

\* C13: the echo scenario: a nonzero value falls through JUMP_IF_ZERO to
\* JUMP and back to INBOX with nothing written; a zero goes to OUTBOX, which
\* appends it; the run halts normally on the exhausted input and the output
\* is the zero values of the input, in order.
C13_Echo == [][EchoStep]_vars /\ []EchoInv

\* the sample run has returned with the five zeros of the sample input
C13_Witness ==
    /\ EchoRun
    /\ in_fifo = in_fifo_sample
    /\ status = "returned"
    /\ ret = ERR_NONE
    /\ Output = <<Num(0), Num(0), Num(0), Num(0), Num(0)>>

\* the instruction at pgm_pc is an addressed instruction among ops whose
\* address the validator accepts
ExecutingValid(ops) == Executing /\ Cur.inst \in ops /\ CurAddrErr = ERR_NONE

\* C14: BUMP_PLUS and BUMP_PLUS_IND on a validly addressed cell holding
\* Number n < 999 take effect once: the cell and hands hold n + 1, no error
\* is raised and the program counter advances by one; with n = 999 the run
\* halts with overflow and the cell keeps 999.
C14_BumpUp ==
    [][(ExecutingValid({"BUMP_PLUS", "BUMP_PLUS_IND"}) /\ mem[CurIdx].type = NUM)
          => LET n == mem[CurIdx].n
             IN  IF n < 999
                 THEN /\ mem' = [mem EXCEPT ![CurIdx] = Num(n + 1)]
                      /\ hands' = Num(n + 1)
                      /\ err' = ERR_NONE
                      /\ pgm_pc' = pgm_pc + 1
                 ELSE /\ err' = ERR_OVERFLOW
                      /\ mem' = mem]_vars

\* C15: BUMP_MINUS and BUMP_MINUS_IND on a validly addressed cell holding
\* Number n: for n - 1 >= -999 no error is raised, the cell and hands hold
\* n - 1 and the program counter advances by one; underflow is raised only
\* for n - 1 < -999 and leaves the cell unchanged.
C15_BumpDown ==
    [][(ExecutingValid({"BUMP_MINUS", "BUMP_MINUS_IND"}) /\ mem[CurIdx].type = NUM)
          => LET n == mem[CurIdx].n
             IN  IF n - 1 >= -999
                 THEN /\ mem' = [mem EXCEPT ![CurIdx] = Num(n - 1)]
                      /\ hands' = Num(n - 1)
                      /\ err' = ERR_NONE
                      /\ pgm_pc' = pgm_pc + 1
                 ELSE /\ err' = ERR_UNDERFLOW
                      /\ mem' = mem]_vars

\* C16: COPYTO and COPYTO_IND with non-empty hands x and a valid address a
\* take effect once: cell a holds x, the other cells are unchanged, hands
\* are Empty, no error is raised and the program counter advances by one, so
\* the same instruction does not run again and replace x.
C16_CopyTo ==
    [][(ExecutingValid({"COPYTO", "COPYTO_IND"}) /\ hands.type # EMPTY)
          => /\ mem' = [mem EXCEPT ![CurIdx] = hands]
             /\ hands'.type = EMPTY
             /\ err' = ERR_NONE
             /\ pgm_pc' = pgm_pc + 1]_vars

\* C17: COPYFROM and COPYFROM_IND with a valid address a: an Empty cell a
\* halts the run with the reading-empty-cell error and leaves hands alone;
\* otherwise hands become a copy of cell a, memory is unchanged and the
\* program counter advances by one.
C17_CopyFrom ==
    [][ExecutingValid({"COPYFROM", "COPYFROM_IND"})
          => IF mem[CurIdx].type = EMPTY
             THEN /\ err' = (IF Cur.inst = "COPYFROM"
                             THEN ERR_COPYFROM_READING_EMPTY_ADDR
                             ELSE ERR_COPYFROM_IND_READING_EMPTY_ADDR)
                  /\ hands' = hands
             ELSE /\ hands' = mem[CurIdx]
                  /\ mem' = mem
                  /\ err' = ERR_NONE
                  /\ pgm_pc' = pgm_pc + 1]_vars

InRange(v) == v.type = NUM => (-999 <= v.n /\ v.n <= 999)

\* C19: with every Number of the input queue and of the initial bank in
\* [-999, 999], every Number held in hands, in a memory cell or in the
\* output queue lies in [-999, 999] in every state of the run, the states
\* halted on an error included.
C19_ValueRange ==
    /\ InRange(hands)
    /\ \A i \in DOMAIN mem : InRange(mem[i])
    /\ \A i \in DOMAIN out_fifo : InRange(out_fifo[i])

\* C20: an instruction that halts the run with an error has no partial
\* effect: memory, hands, the input cursor, the output queue and the program
\* counter are as before the instruction, and no further instruction runs.
C20_ErrorHasNoEffect ==
    [][/\ (Executing /\ err' # ERR_NONE)
            => UNCHANGED <<mem, hands, in_fifo_val_idx, out_fifo, out_fifo_num_vals, pgm_pc>>
       /\ (status = "running" /\ err # ERR_NONE)
            => status' = "returned" /\ ret' = err]_vars

\* a later call of execute has begun: the step from a returned run to the
\* first test of the loop condition
Reentry == status = "returned" /\ status' = "running"

\* C21: every call of execute starts in the same state, whatever ran before:
\* at entry hands are Empty, the program counter, the instruction counter and
\* the input cursor are 0 and the output is empty; so a run's outcome does
\* not depend on an earlier run: the program of one OUTBOX, which halts with
\* the empty-hands error when run first, does so in every run.
C21_FreshStart ==
    /\ [][Reentry => /\ hands'.type = EMPTY
                     /\ pgm_pc' = 0
                     /\ pgm_num_instructions_executed' = 0
                     /\ in_fifo_val_idx' = 0
                     /\ out_fifo_num_vals' = 0]_vars
    /\ []((status = "returned" /\ pgm = Arr(<<Inst("OUTBOX", ZeroVal)>>))
            => ret = ERR_EMPTY_HANDS /\ out_fifo_num_vals = 0)

ArithOps == {"ADD", "ADD_IND", "SUB", "SUB_IND"}

AddOps == {"ADD", "ADD_IND"}

\* the errors of the three validations of ADD and SUB
HandsErrs == {ERR_BAD_ADDEND_TYPE_IN_HANDS, ERR_BAD_SUBTRAHEND_TYPE_IN_HANDS}

AddressErrs == {ERR_INVALID_TYPE_FOR_DIRECT_ADDR, ERR_DIRECT_ADDR_OUT_OF_RANGE,
                ERR_INVALID_TYPE_FOR_INDIRECT_ADDR, ERR_INDIRECT_ADDR_OUT_OF_RANGE}

OperandErrs == {ERR_BAD_ADDEND_TYPE_IN_MEMORY, ERR_BAD_SUBTRAHEND_TYPE_IN_MEMORY}

CurOuterReads ==
    IF Cur.inst \in DirectOps THEN <<>>
    ELSE verify_indirect_addr_trace(Cur.param, mem, mem_len).reads

\* every index the instruction at pgm_pc uses on the bank lies in the bank:
\* the cell the validator of an indirect instruction reads, and the cell the
\* instruction reads or writes once its validator has accepted the address
BankAccessInBounds ==
    (Executing /\ Cur.inst \in AddrOps)
        => /\ \A k \in DOMAIN CurOuterReads :
                 0 <= CurOuterReads[k] /\ CurOuterReads[k] < mem_len
           /\ CurAddrErr = ERR_NONE => (0 <= CurIdx /\ CurIdx < mem_len)

\* C23: in every run, whatever the parameters (negative numbers included)
\* and the contents of the bank, every read or write of the bank by a direct
\* or indirect instruction uses an index i with 0 <= i < bank length, and
\* the bank's length never changes.
C23_BankMemorySafety ==
    /\ []BankAccessInBounds
    /\ [][DOMAIN mem' = DOMAIN mem /\ mem_len' = mem_len]_vars

\* COPYFROM_IND went through a cell holding a valid address and put the
\* addressed Number in the hands
C23_Witness ==
    /\ Executing
    /\ Cur.inst = "COPYFROM_IND"
    /\ mem_len > 0
    /\ CurAddrErr = ERR_NONE
    /\ CurIdx # Cur.param.n
    /\ hands.type = NUM
    /\ hands = mem[CurIdx]
    /\ in_fifo_val_idx = 0

\* C24: in every reachable state the number of values written to the output
\* queue is at most NUM_INBOX_VALUES, the capacity of out_fifo, and an OUTBOX
\* about to store the hands does so at an index below NUM_INBOX_VALUES.
C24_OutputBound ==
    /\ out_fifo_num_vals <= NUM_INBOX_VALUES
    /\ (Executing /\ Cur.inst = "OUTBOX" /\ hands.type # EMPTY)
          => out_fifo_num_vals < NUM_INBOX_VALUES

====
